---- MODULE Spec2Model ----
(***************************************************************************)
(* Model of zsfxu/stock-data-solutions:                                    *)
(*   src/comprehensive_solution.py  SimpleStockDataTool (fetch_data,       *)
(*                                  manual_import, clean_install_openbb)   *)
(*                                  and the __main__ menu                  *)
(*   src/fix_and_verify_openbb.py   check_python_version,                  *)
(*                                  check_installed_packages,              *)
(*                                  reinstall_openbb,                      *)
(*                                  verify_openbb_installation, main       *)
(*                                                                         *)
(* The program is single-threaded.  pc is the position of the one thread;  *)
(* every external call (yf.download, time.sleep, os.path.exists,           *)
(* pd.read_csv, pip show / uninstall / install, input, import) appends one *)
(* event to log, the trace of the external calls made by the function      *)
(* call or program run that is in progress.  env is the package registry   *)
(* the pip commands work on.                                               *)
(***************************************************************************)
EXTENDS Integers, Sequences, FiniteSets, TLC

\* ---------------------------------------------------------------- bounds
MaxRetries == 4       \* largest retries argument explored
MaxDelayBound == 3    \* max_delay arguments explored: 1..MaxDelayBound and the default
MaxCalls == 2         \* number of successive direct calls of one function

\* ------------------------------------------------------ program constants
DefaultRetries == 3
DefaultMaxDelay == 10

VARIABLES
    entry,          \* what is being run: one function called directly, or __main__
    pc,             \* position of the thread
    calls,          \* direct calls of the function made so far
    action,         \* __main__: the menu choice
    yf,             \* self.yf: "module" or "None"
    utils_get,      \* yf.utils.get: number of custom_get wrappers around the original function
    retries,        \* fetch_data argument
    max_delay,      \* fetch_data argument
    attempt,        \* fetch_data loop variable
    original_get,   \* fetch_data local: the function saved at line 52
    data,           \* local 'data' of fetch_data / __main__
    ret,            \* value returned by the last call that returned
    site,           \* fetch_data: the return site of the last return
    retOf,          \* fetch_data: value returned at each return site so far
    idx,            \* position of a for loop in a package list (1-based)
    installed,      \* check_installed_packages: the dict 'installed'
    version_ok,     \* first component of check_installed_packages' result
    version_info,   \* sys.version_info[:2] of the process: <<major, minor>>
    loaded,         \* 'openbb' in sys.modules
    env,            \* the package registry pip works on: package -> installed version
    last,           \* the last uninstall of the loop: its outcome and whether it was printed
    exit_code,      \* fix main: the value it returned, or the exception that left it
    anyfail,        \* some pip uninstall / install of this run sequence failed
    removed,        \* installed packages removed by the uninstall loop in progress
    env_first,      \* the registry when the first reconciliation returned True
    log             \* external calls made by the run in progress, in order

vars == <<entry, pc, calls, action, yf, utils_get, retries, max_delay, attempt,
          original_get, data, ret, site, retOf, idx, installed, version_ok,
          version_info, loaded, exit_code, env, last, anyfail, removed,
          env_first, log>>

ctlVars == <<entry, calls, action>>
sysVars == <<version_info, loaded, exit_code>>
pipVars == <<env, last, anyfail, removed, env_first>>
argVars == <<retries, max_delay>>
invVars == <<idx, installed, version_ok>>

\* ---------------------------------------------------------------- helpers
Min(a, b) == IF a <= b THEN a ELSE b

Ev(op, key, n, out) == [op |-> op, key |-> key, n |-> n, out |-> out]

RECURSIVE CountOp(_, _)
CountOp(s, op) ==
    IF s = <<>> THEN 0
    ELSE (IF Head(s).op = op THEN 1 ELSE 0) + CountOp(Tail(s), op)

RECURSIVE SumSleep(_)
SumSleep(s) ==
    IF s = <<>> THEN 0
    ELSE (IF Head(s).op = "sleep" THEN Head(s).n ELSE 0) + SumSleep(Tail(s))

\* str.startswith
StartsWith(s, prefix) ==
    /\ Len(s) >= Len(prefix)
    /\ SubSeq(s, 1, Len(prefix)) = prefix

\* str.strip, for the one whitespace character the inputs contain
RECURSIVE Strip(_)
Strip(s) ==
    IF s = <<>> THEN s
    ELSE IF Head(s) = " " THEN Strip(Tail(s))
    ELSE IF s[Len(s)] = " " THEN Strip(SubSeq(s, 1, Len(s) - 1))
    ELSE s

Entries ==
    {"fetch_data", "manual_import", "check_installed_packages", "main",
     "reinstall_openbb", "clean_install_openbb", "check_python_version",
     "verify_openbb_installation", "fix_main"}

RetriesArgs == 0..MaxRetries
MaxDelayArgs == (1..MaxDelayBound) \cup {DefaultMaxDelay}

\* ------------------------------------------------------------- fetch_data
\* the exponent taken from the attempt number that is printed (attempt + 1)
BackoffDelayNextAttempt(a, maxDelay) == Min(2^(a + 1), maxDelay)

\* line 82: delay = min(2 ** attempt, max_delay)
BackoffDelay(a, maxDelay) == Min(2^a, maxDelay)

\* the test without the - 1: a sleep follows the last attempt too
ShouldRetryEveryAttempt(a, r) == a < r

\* line 80: if attempt < retries - 1
ShouldRetry(a, r) == a < r - 1

\* an empty frame treated like an exception
IsTransientOrEmpty(outcome) == outcome \in {"raise", "empty"}

\* lines 45, 78: an outcome of the download that reaches the except clause
IsTransient(outcome) == outcome = "raise"

\* the frame returned without the test of data.empty
ValueOfUnchecked(d) == "DataFrame"

\* lines 71-76: the value returned once the download returned
ValueOf(d) == IF d # "empty" THEN "DataFrame" ELSE "None"

\* a return of fetch_data at the return site 'kind' with value v
FetchReturn(kind, v) ==
    /\ ret' = v
    /\ site' = kind
    /\ retOf' = [retOf EXCEPT ![kind] = v]
    /\ pc' = IF entry = "main" THEN "main_after_fetch" ELSE "idle"

\* a direct call tool.fetch_data(symbol, start, end, retries=r, max_delay=m)
CallFetchData ==
    /\ entry = "fetch_data" /\ pc = "idle" /\ calls < MaxCalls
    /\ \E r \in RetriesArgs, m \in MaxDelayArgs :
          /\ retries' = r
          /\ max_delay' = m
    /\ calls' = calls + 1
    /\ pc' = "fd_entry"
    /\ attempt' = 0
    /\ data' = "unset"
    /\ ret' = "unset"
    /\ log' = <<>>
    /\ UNCHANGED <<sysVars, pipVars, entry, action, yf, utils_get, original_get, retOf, site, invVars>>

\* lines 38-42
FdEntry ==
    /\ pc = "fd_entry"
    /\ IF yf = "None"
       THEN FetchReturn("unavailable", "None")
       ELSE /\ pc' = "fd_loop"
            /\ UNCHANGED <<ret, retOf, site>>
    /\ UNCHANGED <<sysVars, pipVars, ctlVars, yf, utils_get, argVars, attempt, original_get, data,
                   invVars, log>>

\* lines 44-58: next iteration of range(retries); save yf.utils.get and
\* install custom_get, which wraps the saved function.  When the range is
\* exhausted the function falls off its end and returns None.
FdLoop ==
    /\ pc = "fd_loop"
    /\ IF attempt < retries
       THEN /\ original_get' = utils_get
            /\ utils_get' = utils_get + 1
            /\ pc' = "fd_download"
            /\ UNCHANGED <<ret, retOf, site>>
       ELSE /\ FetchReturn("fallthrough", "None")
            /\ UNCHANGED <<original_get, utils_get>>
    /\ UNCHANGED <<sysVars, pipVars, ctlVars, yf, argVars, attempt, data, invVars, log>>

\* lines 61-66: yf.download raises, or returns an empty or a non-empty frame
FdDownload ==
    /\ pc = "fd_download"
    /\ \E outcome \in {"raise", "empty", "nonempty"} :
          /\ log' = Append(log, Ev("download", "", attempt, outcome))
          /\ IF IsTransient(outcome)
             THEN /\ pc' = "fd_except"
                  /\ UNCHANGED data
             ELSE /\ pc' = "fd_restore"
                  /\ data' = outcome
    /\ UNCHANGED <<sysVars, pipVars, ctlVars, yf, utils_get, argVars, attempt, original_get, ret,
                   retOf, site, invVars>>

\* lines 69-76: restore yf.utils.get, then return the data or None
FdRestore ==
    /\ pc = "fd_restore"
    /\ utils_get' = original_get
    /\ FetchReturn(IF data # "empty" THEN "success" ELSE "empty", ValueOf(data))
    /\ UNCHANGED <<sysVars, pipVars, ctlVars, yf, argVars, attempt, original_get, data, invVars, log>>

\* lines 78-87: the handler; yf.utils.get is not touched here
FdExcept ==
    /\ pc = "fd_except"
    /\ IF ShouldRetry(attempt, retries)
       THEN /\ log' = Append(log, Ev("sleep", "", BackoffDelay(attempt, max_delay), ""))
            /\ attempt' = attempt + 1
            /\ pc' = "fd_loop"
            /\ UNCHANGED <<ret, retOf, site>>
       ELSE /\ FetchReturn("exhausted", "None")
            /\ UNCHANGED <<log, attempt>>
    /\ UNCHANGED <<sysVars, pipVars, ctlVars, yf, utils_get, argVars, original_get, data, invVars>>

\* ---------------------------------------------------------- manual_import
\* a return of manual_import with value v
ImportReturn(v) ==
    /\ ret' = v
    /\ pc' = IF entry = "main" THEN "main_after_import" ELSE "idle"

\* a direct call tool.manual_import(file_path)
CallManualImport ==
    /\ entry = "manual_import" /\ pc = "idle" /\ calls < MaxCalls
    /\ calls' = calls + 1
    /\ pc' = "mi_exists"
    /\ ret' = "unset"
    /\ log' = <<>>
    /\ UNCHANGED <<sysVars, pipVars, entry, action, yf, utils_get, argVars, attempt, original_get,
                   data, retOf, site, invVars>>

\* the parse started without looking at the result of os.path.exists
MiExistsUnchecked ==
    /\ pc = "mi_exists"
    /\ \E exists \in BOOLEAN :
          log' = Append(log, Ev("exists", "", 0, IF exists THEN "True" ELSE "False"))
    /\ pc' = "mi_primary"
    /\ UNCHANGED <<sysVars, pipVars, ctlVars, yf, utils_get, argVars, attempt, original_get, data,
                   ret, retOf, site, invVars>>

\* lines 92-94: os.path.exists(file_path)
MiExists ==
    /\ pc = "mi_exists"
    /\ \E exists \in BOOLEAN :
          /\ log' = Append(log, Ev("exists", "", 0, IF exists THEN "True" ELSE "False"))
          /\ IF ~exists
             THEN ImportReturn("None")
             ELSE /\ pc' = "mi_primary"
                  /\ UNCHANGED ret
    /\ UNCHANGED <<sysVars, pipVars, ctlVars, yf, utils_get, argVars, attempt, original_get, data,
                   retOf, site, invVars>>

\* the handler of the primary parse without its inner try
MiPrimaryNoFallback ==
    /\ pc = "mi_primary"
    /\ \E outcome \in {"ok", "raise"} :
          /\ log' = Append(log, Ev("read_csv", "primary", 0, outcome))
          /\ ImportReturn(IF outcome = "ok" THEN "DataFrame:first_column" ELSE "None")
    /\ UNCHANGED <<sysVars, pipVars, ctlVars, yf, utils_get, argVars, attempt, original_get, data,
                   retOf, site, invVars>>

\* lines 97-101: pd.read_csv(file_path, index_col=0, parse_dates=True)
MiPrimary ==
    /\ pc = "mi_primary"
    /\ \E outcome \in {"ok", "raise"} :
          /\ log' = Append(log, Ev("read_csv", "primary", 0, outcome))
          /\ IF outcome = "ok"
             THEN ImportReturn("DataFrame:first_column")
             ELSE /\ pc' = "mi_secondary"
                  /\ UNCHANGED ret
    /\ UNCHANGED <<sysVars, pipVars, ctlVars, yf, utils_get, argVars, attempt, original_get, data,
                   retOf, site, invVars>>

\* lines 103-111: pd.read_csv(file_path, parse_dates=['Date']), which raises
\* when the file has no 'Date' column, then set_index('Date')
MiSecondary ==
    /\ pc = "mi_secondary"
    /\ \E outcome \in {"ok", "raise"} :
          /\ log' = Append(log, Ev("read_csv", "secondary", 0, outcome))
          /\ ImportReturn(IF outcome = "ok" THEN "DataFrame:Date" ELSE "None")
    /\ UNCHANGED <<sysVars, pipVars, ctlVars, yf, utils_get, argVars, attempt, original_get, data,
                   retOf, site, invVars>>

\* ----------------------------------------------- check_installed_packages
\* lines 26-29
Packages ==
    <<"openbb", "openbb-core", "openbb-equity", "openbb-yfinance",
      "openbb-charting", "openbb-crypto">>

VersionPrefix == <<"V", "e", "r", "s", "i", "o", "n", ":", " ">>
NameLine == <<"N", "a", "m", "e", ":", " ", "o", "p", "e", "n", "b", "b">>

\* outputs of a 'pip show' that exits with code 0: with and without a
\* Version line, one of them with trailing whitespace; the versions have
\* the majors 4, 1, 0, 40, 10 and 3
Stdouts ==
    { <<NameLine>>,
      <<NameLine, VersionPrefix \o <<"4", ".", "4", ".", "0">> >>,
      <<NameLine, VersionPrefix \o <<"1", ".", "2", ".", "0">> >>,
      <<NameLine, VersionPrefix \o <<"0", ".", "9", ".", "0", " ">> >>,
      <<NameLine, VersionPrefix \o <<"4", "0", ".", "1", ".", "0">> >>,
      <<NameLine, VersionPrefix \o <<"1", "0", ".", "0", ".", "0">> >>,
      <<NameLine, VersionPrefix \o <<"3", ".", "2", ".", "4">> >> }

\* the outputs explored for the packages whose version the check does not read
OtherStdouts ==
    { <<NameLine>>,
      <<NameLine, VersionPrefix \o <<"1", ".", "2", ".", "0">> >> }

\* what subprocess.run can do: raise, or return a returncode and a stdout
ShowResults ==
    {[raised |-> TRUE, returncode |-> 0, stdout |-> <<>>],
     [raised |-> FALSE, returncode |-> 1, stdout |-> <<>>]}
    \cup {[raised |-> FALSE, returncode |-> 0, stdout |-> so] : so \in Stdouts}

\* 'pip show pkg' on the registry e: exit code 1 and no output for a package
\* that is not installed, its version otherwise
EnvShow(e, pkg) ==
    IF pkg \in DOMAIN e
    THEN [raised |-> FALSE, returncode |-> 0,
          stdout |-> <<NameLine, VersionPrefix \o e[pkg]>>]
    ELSE [raised |-> FALSE, returncode |-> 1, stdout |-> <<>>]

\* the results explored for the lookup of pkg: in a run of main the registry
\* answers; in a direct call any result, with every version for the two
\* packages the check reads
ShowResultsOf(pkg) ==
    IF entry = "fix_main" THEN {EnvShow(env, pkg)}
    ELSE IF pkg \in {"openbb", "openbb-core"} THEN ShowResults
    ELSE {r \in ShowResults : r.raised \/ r.returncode # 0 \/ r.stdout \in OtherStdouts}

\* what the lookup reported, as the package registry sees it
ShowKind(r) ==
    IF r.raised THEN "raise"
    ELSE IF r.returncode # 0 THEN "nonzero"
    ELSE IF \E i \in 1..Len(r.stdout) : StartsWith(r.stdout[i], VersionPrefix)
         THEN "version"
    ELSE "noversion"

\* lines 44-45: next((line for line in lines if line.startswith('Version: ')), None)
RECURSIVE FirstVersionLine(_)
FirstVersionLine(lines) ==
    IF lines = <<>> THEN <<>>
    ELSE IF StartsWith(Head(lines), VersionPrefix) THEN Head(lines)
    ELSE FirstVersionLine(Tail(lines))

\* line 47: version_line.split('Version: ')[1].strip()
ParseVersion(line) == Strip(SubSeq(line, Len(VersionPrefix) + 1, Len(line)))

\* lines 42-48: the dict after the lookup of pkg returned r
Record(inst, pkg, r) ==
    IF r.returncode = 0 /\ FirstVersionLine(r.stdout) # <<>>
    THEN [p \in DOMAIN inst \cup {pkg} |->
             IF p = pkg THEN ParseVersion(FirstVersionLine(r.stdout)) ELSE inst[p]]
    ELSE inst

\* the dict rebuilt in the handler
RecordRaisedDropsAll(inst, pkg) == [p \in {} |-> <<>>]

\* lines 49-50: the dict after the lookup of pkg raised
RecordRaised(inst, pkg) == inst

\* line 62: the default of installed.get('openbb-core', ...), a string of
\* two CJK characters ("unknown")
Unknown == <<"U+672A", "U+77E5">>

\* the prefixes tested without their dot
VersionOkLoosePrefix(inst) ==
    IF "openbb" \in DOMAIN inst
    THEN LET core_version == IF "openbb-core" \in DOMAIN inst
                             THEN inst["openbb-core"] ELSE Unknown
         IN  ~(StartsWith(inst["openbb"], <<"4">>)
               /\ ~StartsWith(core_version, <<"1">>))
    ELSE TRUE

\* the version test made without the test for 'openbb'
VersionOkAbsentFails(inst) ==
    LET anchor == IF "openbb" \in DOMAIN inst THEN inst["openbb"] ELSE Unknown
        core_version == IF "openbb-core" \in DOMAIN inst
                        THEN inst["openbb-core"] ELSE Unknown
    IN  "openbb" \in DOMAIN inst
        /\ ~(StartsWith(anchor, <<"4", ".">>) /\ ~StartsWith(core_version, <<"1", ".">>))

\* lines 61-72: the first component of the result
VersionOk(inst) ==
    IF "openbb" \in DOMAIN inst
    THEN LET core_version == IF "openbb-core" \in DOMAIN inst
                             THEN inst["openbb-core"] ELSE Unknown
         IN  ~(StartsWith(inst["openbb"], <<"4", ".">>)
               /\ ~StartsWith(core_version, <<"1", ".">>))
    ELSE TRUE

EmptyDict == [p \in {} |-> <<>>]

\* no uninstall made yet
NoCall == [outcome |-> "", printed |-> FALSE]

\* a direct call check_installed_packages()
CallCheckInstalledPackages ==
    /\ entry = "check_installed_packages" /\ pc = "idle" /\ calls < MaxCalls
    /\ calls' = calls + 1
    /\ pc' = "cip_loop"
    /\ idx' = 1
    /\ installed' = EmptyDict
    /\ version_ok' = "unset"
    /\ log' = <<>>
    /\ UNCHANGED <<sysVars, pipVars, entry, action, yf, utils_get, argVars, attempt, original_get,
                   data, ret, retOf, site>>

\* lines 34-50: one iteration of 'for pkg in packages'
CipLoop ==
    /\ pc = "cip_loop"
    /\ IF idx <= Len(Packages)
       THEN /\ \E r \in ShowResultsOf(Packages[idx]) :
                  /\ log' = Append(log, Ev("pip_show", Packages[idx], r.returncode, ShowKind(r)))
                  /\ installed' = IF r.raised
                                  THEN RecordRaised(installed, Packages[idx])
                                  ELSE Record(installed, Packages[idx], r)
            /\ idx' = idx + 1
            /\ UNCHANGED pc
       ELSE /\ pc' = "cip_check"
            /\ UNCHANGED <<idx, installed, log>>
    /\ UNCHANGED <<sysVars, pipVars, ctlVars, yf, utils_get, argVars, attempt, original_get, data,
                   ret, retOf, site, version_ok>>

\* lines 52-72: print the inventory, check the versions, return
CipCheck ==
    /\ pc = "cip_check"
    /\ version_ok' = IF VersionOk(installed) THEN "True" ELSE "False"
    /\ pc' = IF entry = "fix_main" THEN "fm_prompt" ELSE "idle"
    /\ UNCHANGED <<sysVars, pipVars, ctlVars, yf, utils_get, argVars, attempt, original_get, data,
                   ret, retOf, site, idx, installed, log>>

\* ------------------------------ reinstall_openbb and clean_install_openbb
\* lines 83-92 of fix_and_verify_openbb.py, 180-189 of comprehensive_solution.py
UninstallList ==
    <<"openbb", "openbb-core", "openbb-equity", "openbb-yfinance",
      "openbb-charting", "openbb-crypto", "openbb-economy",
      "openbb-forecast", "openbb-index", "openbb-macro",
      "openbb-news", "openbb-options", "openbb-patterns",
      "openbb-politics", "openbb-portfolio", "openbb-screener",
      "openbb-sectors", "openbb-stocks", "openbb-surveillance",
      "openbb-terms", "openbb-time", "openbb-treasury",
      "openbb-vendor", "openbb-world">>

V440 == <<"4", ".", "4", ".", "0">>
V120 == <<"1", ".", "2", ".", "0">>
V090 == <<"0", ".", "9", ".", "0">>
V324 == <<"3", ".", "2", ".", "4">>

\* another version in the install command
PinnedVersionOther == <<"4", ".", "3", ".", "0">>

\* the version in 'openbb[all]==4.4.0'
PinnedVersion == V440

\* what a successful 'pip install openbb[all]==<pinned>' leaves installed:
\* the bundle at the pinned version, with its core and extensions
TargetEnv ==
    [p \in {"openbb", "openbb-core", "openbb-equity", "openbb-yfinance"} |->
        IF p = "openbb" THEN PinnedVersion ELSE V120]

\* the registries a run starts from: nothing installed; a compatible, a
\* mismatched and a core-less bundle; an older bundle with a legacy
\* extension; a core without its bundle
InitialEnvs ==
    { EmptyDict,
      ("openbb" :> V440) @@ ("openbb-core" :> V120),
      ("openbb" :> V440) @@ ("openbb-core" :> V090),
      ("openbb" :> V440),
      ("openbb" :> V324) @@ ("openbb-core" :> V090) @@ ("openbb-stocks" :> V120),
      ("openbb-core" :> V120) }

\* what 'pip uninstall -y pkg' can do: remove the package or find it absent
\* and exit with 0, exit with another code, or not run at all (an exception)
UninstallOutcomes == {"ok", "nonzero", "raise"}

\* an uninstall that removes nothing
UninstalledNothing(e, pkg, outcome) == e

\* the registry after 'pip uninstall -y pkg' ended with outcome
Uninstalled(e, pkg, outcome) ==
    IF outcome = "ok" /\ pkg \in DOMAIN e
    THEN [p \in DOMAIN e \ {pkg} |-> e[p]]
    ELSE e

\* the registry after 'pip install openbb[all]==4.4.0' ended with outcome
Installed(e, outcome) ==
    IF outcome = "ok"
    THEN [p \in DOMAIN e \cup DOMAIN TargetEnv |->
             IF p \in DOMAIN TargetEnv THEN TargetEnv[p] ELSE e[p]]
    ELSE e

\* lines 103-104 / 197-198: the failure message is printed in the except
\* clause alone; subprocess.run is called without check and its returncode
\* is not read
FailurePrinted(outcome) == outcome = "raise"

\* the try statement around the loop instead of inside it
UninstallStopsOnRaise(outcome) == outcome # "raise"

\* lines 95-104 / 192-198: the try statement is inside the loop, which goes
\* on to the next package after every outcome
UninstallGoesOn(outcome) == TRUE

\* lines 110-118 / 203-211: check=True turns a non-zero exit into an
\* exception, and the except clause returns False
InstallResult(outcome) == IF outcome = "ok" THEN "True" ELSE "False"

\* one iteration of the uninstall loop, at pc = loop, going to pc = next
\* after the last package
UninstallStep(loop, next) ==
    /\ pc = loop
    /\ IF idx <= Len(UninstallList)
       THEN \E outcome \in UninstallOutcomes :
               /\ log' = Append(log, Ev("pip_uninstall", UninstallList[idx], 0, ""))
               /\ env' = Uninstalled(env, UninstallList[idx], outcome)
               /\ last' = [outcome |-> outcome, printed |-> FailurePrinted(outcome)]
               /\ anyfail' = (anyfail \/ outcome # "ok")
               /\ removed' = IF env' # env THEN removed + 1 ELSE removed
               /\ IF UninstallGoesOn(outcome)
                  THEN idx' = idx + 1 /\ UNCHANGED pc
                  ELSE pc' = next /\ UNCHANGED idx
       ELSE /\ pc' = next
            /\ UNCHANGED <<idx, log, env, last, anyfail, removed>>
    /\ UNCHANGED <<ctlVars, sysVars, yf, utils_get, argVars, attempt, original_get,
                   data, ret, retOf, site, installed, version_ok, env_first>>

\* the pinned install at pc = at, returning to pc = back
InstallStep(at, spec, back) ==
    /\ pc = at
    /\ \E outcome \in {"ok", "fail"} :
          /\ log' = Append(log, Ev("pip_install", spec, 0, outcome))
          /\ env' = Installed(env, outcome)
          /\ anyfail' = (anyfail \/ outcome # "ok")
          /\ ret' = InstallResult(outcome)
          /\ env_first' = IF calls = 1 /\ outcome = "ok" THEN env' ELSE env_first
    /\ pc' = back
    /\ UNCHANGED <<ctlVars, sysVars, yf, utils_get, argVars, attempt, original_get,
                   data, retOf, site, invVars, last, removed>>

\* a direct call of fn, at pc = loop
CallReconcile(fn, loop) ==
    /\ entry = fn /\ pc = "idle" /\ calls < MaxCalls
    /\ calls' = calls + 1
    /\ pc' = loop
    /\ idx' = 1
    /\ last' = NoCall
    /\ removed' = 0
    /\ ret' = "unset"
    /\ log' = <<>>
    /\ UNCHANGED <<entry, action, sysVars, yf, utils_get, argVars, attempt,
                   original_get, data, retOf, site, installed, version_ok,
                   env, anyfail, env_first>>

\* a direct call reinstall_openbb()
CallReinstallOpenbb == CallReconcile("reinstall_openbb", "ri_uninstall")

\* fix_and_verify_openbb.py lines 95-104
RiUninstall == UninstallStep("ri_uninstall", "ri_install")

\* fix_and_verify_openbb.py lines 108-118
RiInstall ==
    InstallStep("ri_install", "--no-cache-dir openbb[all]==4.4.0",
                IF entry = "fix_main" THEN "fm_after_reinstall" ELSE "idle")

\* a direct call clean_install_openbb()
CallCleanInstallOpenbb == CallReconcile("clean_install_openbb", "ci_uninstall")

\* comprehensive_solution.py lines 192-198
CiUninstall == UninstallStep("ci_uninstall", "ci_install")

\* comprehensive_solution.py lines 202-211
CiInstall ==
    InstallStep("ci_install", "openbb[all]==4.4.0",
                IF entry = "main" THEN "main_end" ELSE "idle")

\* ---------------------------------------------------------------- __main__
\* lines 219, 12-34: tool = SimpleStockDataTool(); _check_yfinance imports
\* yfinance, installing it with pip when the import fails
MainConstruct ==
    /\ entry = "main" /\ pc = "main_start"
    /\ \E imported \in BOOLEAN, pip_ok \in BOOLEAN :
          yf' = IF imported \/ pip_ok THEN "module" ELSE "None"
    /\ pc' = "main_menu"
    /\ UNCHANGED <<sysVars, pipVars, ctlVars, utils_get, argVars, attempt, original_get, data, ret,
                   retOf, site, invVars, log>>

\* lines 222-229, 238-240, 248, 253-254: the menu.  '1' calls fetch_data with
\* the default retries and max_delay, '2' calls manual_import, '3' asks for
\* confirmation, anything else ends the run.
MainMenu ==
    /\ pc = "main_menu"
    /\ \E a \in {"1", "2", "3", "other"} :
          /\ action' = a
          /\ pc' = CASE a = "1" -> "fd_entry"
                     [] a = "2" -> "mi_exists"
                     [] a = "3" -> "main_confirm"
                     [] OTHER -> "main_end"
    /\ retries' = DefaultRetries
    /\ max_delay' = DefaultMaxDelay
    /\ attempt' = 0
    /\ UNCHANGED <<sysVars, pipVars, entry, calls, yf, utils_get, original_get, data, ret, retOf, site,
                   invVars, log>>

\* manual_import called when fetch_data returned None
MainAfterFetchFallback ==
    /\ pc = "main_after_fetch"
    /\ data' = ret
    /\ IF ret # "None"
       THEN /\ log' = Append(log, Ev("analyze", "", 0, ""))
            /\ pc' = "main_end"
       ELSE /\ pc' = "mi_exists"
            /\ UNCHANGED log
    /\ UNCHANGED <<sysVars, pipVars, ctlVars, yf, utils_get, argVars, attempt, original_get, ret,
                   retOf, site, invVars>>

\* lines 229-236: analysis and chart when data came back, the advice to
\* import manually otherwise
MainAfterFetch ==
    /\ pc = "main_after_fetch"
    /\ data' = ret
    /\ log' = Append(log, IF ret # "None"
                          THEN Ev("analyze", "", 0, "")
                          ELSE Ev("print", "try_manual_import", 0, ""))
    /\ pc' = "main_end"
    /\ UNCHANGED <<sysVars, pipVars, ctlVars, yf, utils_get, argVars, attempt, original_get, ret,
                   retOf, site, invVars>>

\* lines 240-246
MainAfterImport ==
    /\ pc = "main_after_import"
    /\ data' = ret
    /\ log' = IF ret # "None" THEN Append(log, Ev("analyze", "", 0, "")) ELSE log
    /\ pc' = "main_end"
    /\ UNCHANGED <<sysVars, pipVars, ctlVars, yf, utils_get, argVars, attempt, original_get, ret,
                   retOf, site, invVars>>

\* str.lower on the answers explored
Lower(s) == IF s = "Y" THEN "y" ELSE IF s = "N" THEN "n" ELSE s

\* an answer that is not 'n' taken for consent
ConsentedUnlessNo(answer) == Lower(answer) # "n"

\* comprehensive_solution.py lines 249-250, fix_and_verify_openbb.py lines
\* 169-171 and 184-185: input(...).lower() == 'y'
Consented(answer) == Lower(answer) = "y"

\* the answers typed at a prompt
Answers == {"y", "Y", "n", ""}

\* lines 249-251
MainConfirm ==
    /\ pc = "main_confirm"
    /\ \E confirm \in Answers :
          /\ log' = Append(log, Ev("input", "confirm", 0, confirm))
          /\ IF Consented(confirm)
             THEN /\ pc' = "ci_uninstall"
                  /\ idx' = 1
             ELSE /\ pc' = "main_end"
                  /\ UNCHANGED idx
    /\ UNCHANGED <<sysVars, pipVars, ctlVars, yf, utils_get, argVars, attempt,
                   original_get, data, ret, retOf, site, installed, version_ok>>

\* ------------------------------------------------------ check_python_version
MaxMajor == 4
MaxMinor == 9

\* sys.version_info[:2]
Versions == (0..MaxMajor) \X (0..MaxMinor)

\* line 15: the condition of the warning
VersionWarned(v) == v[1] < 3 \/ (v[1] = 3 /\ v[2] < 9)

\* line 18: return major >= 3 and (major == 3 and minor >= 8)
CheckPythonVersion(v) == v[1] >= 3 /\ (v[1] = 3 /\ v[2] >= 8)

\* a direct call check_python_version()
CallCheckPythonVersion ==
    /\ entry = "check_python_version" /\ pc = "idle" /\ calls < MaxCalls
    /\ calls' = calls + 1
    /\ log' = IF VersionWarned(version_info)
              THEN <<Ev("print", "version_warning", 0, "")>>
              ELSE <<>>
    /\ ret' = IF CheckPythonVersion(version_info) THEN "True" ELSE "False"
    /\ UNCHANGED <<entry, action, pc, sysVars, pipVars, yf, utils_get, argVars,
                   attempt, original_get, data, retOf, site, invVars>>

\* ----------------------------------------------- verify_openbb_installation
\* how an import statement can end: done, ImportError, another Exception
ImportOutcomes == {"ok", "ImportError", "Exception"}

\* where verify_openbb_installation returns to
VfBack == IF entry = "fix_main" THEN "fm_return0" ELSE "idle"

\* a direct call verify_openbb_installation()
CallVerifyOpenbbInstallation ==
    /\ entry = "verify_openbb_installation" /\ pc = "idle" /\ calls < MaxCalls
    /\ calls' = calls + 1
    /\ pc' = "vf_import"
    /\ ret' = "unset"
    /\ log' = <<>>
    /\ UNCHANGED <<entry, action, sysVars, pipVars, yf, utils_get, argVars,
                   attempt, original_get, data, retOf, site, invVars>>

\* an import that failed returning True all the same
VfImportResultIgnored(outcome) == "True"

\* lines 146-151: both except clauses return False
VfImportResult(outcome) == IF outcome = "ok" THEN "True" ELSE "False"

\* lines 127-128: import openbb
VfImport ==
    /\ pc = "vf_import"
    /\ \E outcome \in ImportOutcomes :
          /\ log' = Append(log, Ev("import", "openbb", 0, outcome))
          /\ IF outcome = "ok"
             THEN pc' = "vf_obb" /\ UNCHANGED ret
             ELSE pc' = VfBack /\ ret' = VfImportResult(outcome)
    /\ UNCHANGED <<ctlVars, sysVars, pipVars, yf, utils_get, argVars, attempt,
                   original_get, data, retOf, site, invVars>>

\* lines 131-132: from openbb import obb
VfObb ==
    /\ pc = "vf_obb"
    /\ \E outcome \in ImportOutcomes :
          /\ log' = Append(log, Ev("import", "obb", 0, outcome))
          /\ IF outcome = "ok"
             THEN pc' = "vf_probe" /\ UNCHANGED ret
             ELSE pc' = VfBack /\ ret' = VfImportResult(outcome)
    /\ UNCHANGED <<ctlVars, sysVars, pipVars, yf, utils_get, argVars, attempt,
                   original_get, data, retOf, site, invVars>>

\* lines 135-144: the probe in its own try statement, then return True
VfProbe ==
    /\ pc = "vf_probe"
    /\ \E outcome \in {"ok", "raise"} :
          log' = IF outcome = "ok"
                 THEN Append(log, Ev("probe", "providers", 0, outcome))
                 ELSE Append(log, Ev("probe", "providers", 0, outcome))
                          \o <<Ev("print", "probe_warning", 0, "")>>
    /\ ret' = "True"
    /\ pc' = VfBack
    /\ UNCHANGED <<ctlVars, sysVars, pipVars, yf, utils_get, argVars, attempt,
                   original_get, data, retOf, site, invVars>>

\* ------------------------------------------- main of fix_and_verify_openbb
\* lines 156-164: check the interpreter, return 1 or go on to the inventory
FmCheckVersion ==
    /\ entry = "fix_main" /\ pc = "idle" /\ calls = 0
    /\ calls' = 1
    /\ log' = IF VersionWarned(version_info)
              THEN <<Ev("print", "version_warning", 0, "")>>
              ELSE <<>>
    /\ IF CheckPythonVersion(version_info)
       THEN /\ pc' = "cip_loop"
            /\ idx' = 1
            /\ installed' = EmptyDict
            /\ version_ok' = "unset"
            /\ UNCHANGED exit_code
       ELSE /\ pc' = "fm_exit"
            /\ exit_code' = "1"
            /\ UNCHANGED invVars
    /\ UNCHANGED <<entry, action, version_info, loaded, pipVars, yf, utils_get,
                   argVars, attempt, original_get, data, ret, retOf, site>>

\* line 167: not version_ok or 'openbb' not in installed_packages
NeedsReinstall(ok, inst) == ok = "False" \/ "openbb" \notin DOMAIN inst

\* lines 167-178: the prompt, asked when the inventory failed the check
FmPrompt ==
    /\ pc = "fm_prompt"
    /\ IF NeedsReinstall(version_ok, installed)
       THEN \E choice \in Answers :
               /\ log' = Append(log, Ev("input", "choice", 0, choice))
               /\ IF Consented(choice)
                  THEN /\ pc' = "ri_uninstall"
                       /\ idx' = 1
                       /\ last' = NoCall
                       /\ removed' = 0
                  ELSE /\ pc' = "fm_verify_prompt"
                       /\ UNCHANGED <<idx, last, removed>>
       ELSE /\ pc' = "fm_verify_prompt"
            /\ UNCHANGED <<idx, last, removed, log>>
    /\ UNCHANGED <<ctlVars, sysVars, yf, utils_get, argVars, attempt, original_get,
                   data, ret, retOf, site, installed, version_ok, env, anyfail,
                   env_first>>

\* lines 171-175: the result of reinstall_openbb()
FmAfterReinstall ==
    /\ pc = "fm_after_reinstall"
    /\ IF ret = "True"
       THEN pc' = "fm_verify_prompt" /\ UNCHANGED exit_code
       ELSE pc' = "fm_exit" /\ exit_code' = "1"
    /\ UNCHANGED <<ctlVars, version_info, loaded, pipVars, yf, utils_get, argVars,
                   attempt, original_get, data, ret, retOf, site, invVars, log>>

\* lines 184-185: the second prompt
FmVerifyPrompt ==
    /\ pc = "fm_verify_prompt"
    /\ \E verify_now \in Answers :
          /\ log' = Append(log, Ev("input", "verify_now", 0, verify_now))
          /\ pc' = IF Consented(verify_now) THEN "fm_reload" ELSE "fm_return0"
    /\ UNCHANGED <<ctlVars, sysVars, pipVars, yf, utils_get, argVars, attempt,
                   original_get, data, ret, retOf, site, invVars>>

\* line 188: importlib.reload(sys.modules.get('openbb', None)), outside any
\* try statement. reload(None) raises TypeError; the reload of a loaded
\* module runs the module's code again, which ends or raises.
FmReload ==
    /\ pc = "fm_reload"
    /\ \E outcome \in IF loaded THEN {"ok", "Exception"} ELSE {"TypeError"} :
          /\ log' = Append(log, Ev("reload", "openbb", 0, outcome))
          /\ IF outcome = "ok"
             THEN pc' = "vf_import" /\ UNCHANGED exit_code
             ELSE pc' = "fm_exit" /\ exit_code' = outcome
    /\ UNCHANGED <<ctlVars, version_info, loaded, pipVars, yf, utils_get, argVars,
                   attempt, original_get, data, ret, retOf, site, invVars>>

\* lines 191-192: return 0, the result of the verification not being read
FmReturn0 ==
    /\ pc = "fm_return0"
    /\ pc' = "fm_exit"
    /\ exit_code' = "0"
    /\ UNCHANGED <<ctlVars, version_info, loaded, pipVars, yf, utils_get, argVars,
                   attempt, original_get, data, ret, retOf, site, invVars, log>>

\* ------------------------------------------------------------------- spec
Init ==
    /\ entry \in Entries
    /\ pc = IF entry = "main" THEN "main_start" ELSE "idle"
    /\ calls = 0
    /\ action = "unset"
    /\ yf \in IF entry = "fetch_data" THEN {"None", "module"} ELSE {"None"}
    /\ utils_get = 0
    /\ retries = DefaultRetries
    /\ max_delay = DefaultMaxDelay
    /\ attempt = 0
    /\ original_get = 0
    /\ data = "unset"
    /\ ret = "unset"
    /\ site = "unset"
    /\ retOf = [k \in {"unavailable", "fallthrough", "success", "empty", "exhausted"}
                  |-> "unset"]
    /\ idx = 1
    /\ installed = EmptyDict
    /\ version_ok = "unset"
    /\ version_info \in IF entry \in {"check_python_version", "fix_main"}
                        THEN Versions ELSE {<<3, 9>>}
    /\ loaded \in IF entry = "fix_main" THEN BOOLEAN ELSE {FALSE}
    /\ exit_code = "none"
    /\ env \in IF entry \in {"reinstall_openbb", "clean_install_openbb", "main",
                             "fix_main"}
               THEN InitialEnvs ELSE {EmptyDict}
    /\ last = NoCall
    /\ anyfail = FALSE
    /\ removed = 0
    /\ env_first = EmptyDict
    /\ log = <<>>

Next ==
    \/ CallFetchData
    \/ FdEntry
    \/ FdLoop
    \/ FdDownload
    \/ FdRestore
    \/ FdExcept
    \/ CallManualImport
    \/ MiExists
    \/ MiPrimary
    \/ MiSecondary
    \/ CallCheckInstalledPackages
    \/ CipLoop
    \/ CipCheck
    \/ CallReinstallOpenbb
    \/ RiUninstall
    \/ RiInstall
    \/ CallCleanInstallOpenbb
    \/ CiUninstall
    \/ CiInstall
    \/ CallCheckPythonVersion
    \/ CallVerifyOpenbbInstallation
    \/ VfImport
    \/ VfObb
    \/ VfProbe
    \/ FmCheckVersion
    \/ FmPrompt
    \/ FmAfterReinstall
    \/ FmVerifyPrompt
    \/ FmReload
    \/ FmReturn0
    \/ MainConstruct
    \/ MainMenu
    \/ MainAfterFetch
    \/ MainAfterImport
    \/ MainConfirm

Spec == Init /\ [][Next]_vars

\* every call in progress makes a step
FairSpec == Spec /\ WF_vars(Next)

TypeOK ==
    /\ utils_get \in Nat
    /\ attempt \in 0..MaxRetries
    /\ ret \in {"unset", "None", "DataFrame", "DataFrame:first_column",
                "DataFrame:Date", "True", "False"}

\* ================================================================= claims
\* fetch_data is between its call and its return
FetchRunning == pc \in {"fd_entry", "fd_loop", "fd_download", "fd_restore", "fd_except"}

\* fetch_data has just returned to its caller
FetchReturned ==
    \/ entry = "fetch_data" /\ pc = "idle" /\ calls > 0
    \/ pc = "main_after_fetch"

AllDownloadsRaised ==
    \A i \in 1..Len(log) : log[i].op = "download" => log[i].out = "raise"

RECURSIVE Pow2(_)
Pow2(n) == IF n = 0 THEN 1 ELSE 2 * Pow2(n - 1)

\* C1: when yfinance is available, retries = N >= 1 and every download raises,
\* the call makes exactly N downloads (attempts 0..N-1), sleeps exactly once
\* after each of attempts 0..N-2, does not sleep after attempt N-1, and returns
\* None at the "all attempts failed" return.
C1_ExhaustedTrace ==
    (FetchReturned /\ yf = "module" /\ retries >= 1 /\ AllDownloadsRaised) =>
        /\ Len(log) = 2 * retries - 1
        /\ \A i \in 1..Len(log) :
              IF i % 2 = 1
              THEN log[i].op = "download" /\ log[i].n = (i - 1) \div 2
              ELSE log[i].op = "sleep"
        /\ CountOp(log, "download") = retries
        /\ CountOp(log, "sleep") = retries - 1
        /\ site = "exhausted"
        /\ ret = "None"

C1_Witness ==
    /\ FetchReturned /\ yf = "module" /\ retries >= 3 /\ AllDownloadsRaised
    /\ CountOp(log, "download") = retries
    /\ site = "exhausted"

\* C2: a download that returns without raising (empty or non-empty frame) is
\* the last download of the call and no sleep follows it: the call leaves the
\* retry loop at that attempt and returns at the success or the empty return,
\* whatever the attempt index and the retries left.
C2_ReturnsAtFirstResult ==
    \A i \in 1..Len(log) :
        (log[i].op = "download" /\ log[i].out # "raise") =>
            /\ \A j \in (i + 1)..Len(log) : log[j].op \notin {"download", "sleep"}
            /\ pc \notin {"fd_entry", "fd_loop", "fd_download", "fd_except"}
            /\ pc # "fd_restore" =>
                  site = (IF log[i].out = "empty" THEN "empty" ELSE "success")

C2_Witness ==
    /\ FetchReturned
    /\ Len(log) >= 3
    /\ log[Len(log)].op = "download" /\ log[Len(log)].out = "empty"
    /\ log[Len(log)].n < retries - 1

\* C3: when fetch_data returns, yf.utils.get is the original function (no
\* custom_get wrapper is left installed), whatever the attempts did.
C3_GetRestored == FetchReturned => utils_get = 0

\* C4: the delay slept after failed attempt a is min(2^a, max_delay): 1 after
\* attempt 0, and 1 + 2 = 3 in total over a failing call with retries = 3 and
\* max_delay = 10.
C4_BackoffDelay ==
    /\ \A i \in 1..Len(log) :
          log[i].op = "sleep" =>
              /\ i > 1 /\ log[i - 1].op = "download" /\ log[i - 1].out = "raise"
              /\ LET a == log[i - 1].n
                     d == log[i].n
                 IN  /\ d <= Pow2(a) /\ d <= max_delay
                     /\ d = Pow2(a) \/ d = max_delay
                     /\ a = 0 => d = 1
    /\ (FetchReturned /\ site = "exhausted" /\ retries = 3 /\ max_delay = 10) =>
          SumSleep(log) = 3

\* a delay that the ceiling clamps
C4_Witness ==
    /\ FetchReturned
    /\ \E i \in 2..Len(log) :
          /\ log[i].op = "sleep"
          /\ log[i].n = max_delay
          /\ log[i].n < Pow2(log[i - 1].n)

\* C5: with retries >= 1 a call makes at most retries downloads and at most
\* retries - 1 sleeps, each of at most max_delay, and every call returns.
C5_Bounded ==
    retries >= 1 =>
        /\ CountOp(log, "download") <= retries
        /\ CountOp(log, "sleep") <= retries - 1
        /\ \A i \in 1..Len(log) : log[i].op = "sleep" => log[i].n <= max_delay

C5_Terminates ==
    /\ []C5_Bounded
    /\ (FetchRunning /\ retries >= 1) ~> FetchReturned

C5_Witness ==
    /\ FetchReturned
    /\ retries >= 2
    /\ CountOp(log, "download") = retries
    /\ CountOp(log, "sleep") = retries - 1

\* C6 (as stated): the value returned for an empty frame differs from the
\* value returned after exhausted retries.
C6_EmptyDistinctFromExhausted ==
    (retOf["empty"] # "unset" /\ retOf["exhausted"] # "unset") =>
        retOf["empty"] # retOf["exhausted"]

\* C6 (amended): fetch_data returns the frame exactly when an attempt yielded
\* a non-empty frame and None in every other case; the empty return and the
\* exhausted return both return None, a value different from the frame.
C6_FrameOrNone ==
    /\ FetchReturned =>
          /\ ret \in {"DataFrame", "None"}
          /\ ret = "DataFrame" <=> site = "success"
          /\ site = "success" <=>
                (log # <<>> /\ log[Len(log)].op = "download"
                            /\ log[Len(log)].out = "nonempty")
          /\ site = "empty" <=>
                (log # <<>> /\ log[Len(log)].op = "download"
                            /\ log[Len(log)].out = "empty")
          /\ (site = "exhausted" /\ retries >= 1) =>
                (AllDownloadsRaised /\ CountOp(log, "download") = retries)
    /\ retOf["success"] \in {"unset", "DataFrame"}
    /\ retOf["empty"] \in {"unset", "None"}
    /\ retOf["exhausted"] \in {"unset", "None"}

C6_Witness ==
    /\ FetchReturned
    /\ retOf["empty"] = "None"
    /\ retOf["exhausted"] = "None"

\* the events of manual_import in the log
ImportLog == SelectSeq(log, LAMBDA e : e.op \in {"exists", "read_csv"})

\* C7 (as stated): in the fetch workflow (menu choice 1), a run in which
\* fetch_data exhausted its retries has invoked manual_import when it ends.
C7_FallbackInvoked ==
    (pc = "main_end" /\ action = "1" /\ site = "exhausted") =>
        Len(ImportLog) >= 1

\* C7 (amended): in the fetch workflow manual_import is never invoked; when
\* fetch_data returns None the run prints the advice to import manually and
\* ends without analysis, and when it returns a frame the run analyses it.
C7_NoAutomaticFallback ==
    action = "1" =>
        /\ ImportLog = <<>>
        /\ pc \notin {"mi_exists", "mi_primary", "mi_secondary", "main_after_import"}
        /\ pc = "main_end" =>
              /\ log # <<>>
              /\ IF ret = "None"
                 THEN /\ log[Len(log)].op = "print"
                      /\ log[Len(log)].key = "try_manual_import"
                      /\ CountOp(log, "analyze") = 0
                 ELSE /\ log[Len(log)].op = "analyze"
                      /\ CountOp(log, "print") = 0

C7_Witness ==
    /\ pc = "main_end" /\ action = "1" /\ site = "exhausted"
    /\ CountOp(log, "download") = DefaultRetries

\* manual_import has returned
ImportReturned ==
    \/ entry = "manual_import" /\ pc = "idle" /\ calls > 0
    \/ pc = "main_after_import"
    \/ pc = "main_end" /\ action = "2"

\* C8: when os.path.exists reports that the path does not exist, manual_import
\* returns None at once: no read_csv, primary or secondary, is attempted.
C8_MissingFileNoParse ==
    LET il == ImportLog
    IN  (il # <<>> /\ il[1].op = "exists" /\ il[1].out = "False") =>
            /\ Len(il) = 1
            /\ CountOp(log, "read_csv") = 0
            /\ ImportReturned
            /\ ret = "None"

C8_Witness ==
    /\ ImportReturned
    /\ ImportLog # <<>>
    /\ ImportLog[1].out = "False"

\* C9: for an existing file the primary parse is attempted first; when it
\* succeeds its frame is returned and the secondary parse is not attempted;
\* the secondary parse is attempted once, right after the primary raised; a
\* frame is returned iff one of the two succeeded, None iff both raised.
C9_PrimaryThenSecondary ==
    LET il == ImportLog
    IN  (il # <<>> /\ il[1].op = "exists" /\ il[1].out = "True") =>
            /\ Len(il) <= 3
            /\ pc = "mi_primary" <=> Len(il) = 1
            /\ Len(il) >= 2 => (il[2].op = "read_csv" /\ il[2].key = "primary")
            /\ Len(il) = 3 =>
                  /\ il[2].out = "raise"
                  /\ il[3].op = "read_csv" /\ il[3].key = "secondary"
            /\ pc = "mi_secondary" <=> (Len(il) = 2 /\ il[2].out = "raise")
            /\ ImportReturned <=> ((Len(il) >= 2 /\ il[Len(il)].out # "raise")
                                   \/ Len(il) = 3)
            /\ ImportReturned =>
                  /\ ret = "DataFrame:first_column" <=> il[2].out = "ok"
                  /\ ret = "DataFrame:Date" <=> (Len(il) = 3 /\ il[3].out = "ok")
                  /\ ret = "None" <=>
                        (Len(il) = 3 /\ il[2].out = "raise" /\ il[3].out = "raise")

C9_Witness ==
    /\ ImportReturned
    /\ Len(ImportLog) = 3
    /\ ret = "DataFrame:Date"

\* check_installed_packages has returned
InventoryReturned ==
    entry = "check_installed_packages" /\ pc = "idle" /\ calls > 0

\* C10: the inventory looks every package of the list up once, in list order,
\* whatever the earlier lookups did; a lookup that raises or reports the
\* package absent ends nothing and removes nothing; the dict holds exactly the
\* packages whose lookup exited with 0 and printed a version.
C10_InventoryIsolated ==
    entry = "check_installed_packages" =>
        /\ Len(log) = idx - 1
        /\ Len(log) <= Len(Packages)
        /\ \A i \in 1..Len(log) :
              log[i].op = "pip_show" /\ log[i].key = Packages[i]
        /\ DOMAIN installed =
              {log[i].key : i \in {j \in 1..Len(log) : log[j].out = "version"}}
        /\ \A p \in DOMAIN installed :
              installed[p] # <<>> /\ \A k \in 1..Len(installed[p]) : installed[p][k] # " "
        /\ (pc = "cip_check" \/ InventoryReturned) => Len(log) = Len(Packages)

\* a lookup that raised and one that reported the package absent, both
\* after an entry was recorded and before another one was
C10_Witness ==
    /\ InventoryReturned
    /\ log[1].out = "version"
    /\ log[2].out = "raise"
    /\ log[3].out = "nonzero"
    /\ log[4].out = "version"
    /\ DOMAIN installed = {"openbb", "openbb-yfinance"}

\* check_installed_packages has returned its result
InventoryDone == version_ok # "unset"

\* the major version of a dotted version string: the text before its first dot
RECURSIVE Major(_)
Major(v) ==
    IF v = <<>> \/ Head(v) = "." THEN <<>>
    ELSE <<Head(v)>> \o Major(Tail(v))

\* the inventory is mismatched: anchor of major 4 with a core that is absent
\* or not of major 1
Mismatched(inst) ==
    /\ "openbb" \in DOMAIN inst
    /\ Major(inst["openbb"]) = <<"4">>
    /\ \/ "openbb-core" \notin DOMAIN inst
       \/ Major(inst["openbb-core"]) # <<"1">>

\* C11 (as stated): with the anchor absent the verdict is neither the
\* verdict of a compatible inventory (True) nor that of a mismatched one
\* (False).
C11_AbsentVerdictDistinct ==
    (InventoryDone /\ "openbb" \notin DOMAIN installed) =>
        version_ok \notin {"True", "False"}

\* C11 (amended): with the anchor absent the verdict is True, whatever the
\* other components are: the verdict of a compatible inventory, different
\* from the False of a mismatched one; the absence shows only in the dict
\* that is returned with it.
C11_AbsentVerdictTrue ==
    InventoryDone =>
        /\ "openbb" \notin DOMAIN installed => version_ok = "True"
        /\ version_ok = "False" => "openbb" \in DOMAIN installed

C11_Witness ==
    /\ InventoryDone
    /\ DOMAIN installed = {"openbb-core"}
    /\ installed["openbb-core"] = <<"0", ".", "9", ".", "0">>
    /\ version_ok = "True"

\* C12: with the anchor present the verdict is False (mismatched) exactly
\* when the anchor's major version is 4 and the core component is absent or
\* has a major version other than 1, and True (compatible) in every other
\* case, every other anchor major included.
C12_MismatchRule ==
    (InventoryDone /\ "openbb" \in DOMAIN installed) =>
        /\ version_ok \in {"True", "False"}
        /\ version_ok = "False" <=> Mismatched(installed)

\* an anchor of major 40 next to a core of major 10
C12_Witness ==
    /\ InventoryDone
    /\ "openbb" \in DOMAIN installed /\ "openbb-core" \in DOMAIN installed
    /\ Major(installed["openbb"]) = <<"4", "0">>
    /\ Major(installed["openbb-core"]) = <<"1", "0">>
    /\ version_ok = "True"

\* ------------------------------------------------- claims on reconciliation
\* the pip commands of the reconciliation, in the order they were run
RecLog == SelectSeq(log, LAMBDA e : e.op \in {"pip_uninstall", "pip_install"})

ReconcileRunning == pc \in {"ri_uninstall", "ri_install", "ci_uninstall", "ci_install"}

\* reinstall_openbb or clean_install_openbb has returned to its caller
ReconcileReturned ==
    /\ pc \in {"idle", "main_end", "fm_after_reinstall"}
    /\ Len(RecLog) > 0

\* the uninstall loop of the current run is over and the install not yet run
UninstallsDone == pc \in {"ri_install", "ci_install"}

\* C13: in reinstall_openbb and in clean_install_openbb alike, the commands
\* run are 'pip uninstall' of every listed component, in list order and
\* whatever the earlier uninstalls did, then the pinned 'pip install' exactly
\* once and last; the function returns True when the install succeeded and
\* False when it failed.
C13_Transaction ==
    LET rl == RecLog
        n  == Len(UninstallList)
    IN  /\ Len(rl) <= n + 1
        /\ \A i \in 1..Len(rl) :
              IF i <= n
              THEN rl[i].op = "pip_uninstall" /\ rl[i].key = UninstallList[i]
              ELSE rl[i].op = "pip_install"
        /\ ReconcileReturned =>
              /\ Len(rl) = n + 1
              /\ ret \in {"True", "False"}
              /\ ret = "True" <=> rl[n + 1].out = "ok"

\* a run whose uninstalls failed, the last one by an exception, and which
\* still installed and returned True
C13_Witness ==
    /\ ReconcileReturned
    /\ anyfail
    /\ last.outcome = "raise"
    /\ ret = "True"

\* C14: every failing uninstall, by a non-zero exit or by an exception, is
\* reported before the loop goes on.
C14_FailureRecorded == last.outcome \in {"nonzero", "raise"} => last.printed

\* C15: when every subprocess succeeds, a run leaves the bundle at 4.4.0,
\* and a second run leaves the registry the first run left.
C15_Idempotent ==
    (ReconcileReturned /\ ~anyfail) =>
        /\ "openbb" \in DOMAIN env
        /\ env["openbb"] = <<"4", ".", "4", ".", "0">>
        /\ (calls = 2 /\ entry \in {"reinstall_openbb", "clean_install_openbb"})
              => env = env_first

\* a second run with every subprocess succeeding has returned
C15_Witness ==
    /\ ReconcileReturned
    /\ entry = "reinstall_openbb"
    /\ calls = 2
    /\ ~anyfail
    /\ env = env_first
    /\ env["openbb"] = <<"4", ".", "4", ".", "0">>

\* C16 as stated: after a first run that installed the bundle, the uninstall
\* loop of a second run removes nothing.
C16_SecondUninstallNoOp ==
    (calls = 2 /\ UninstallsDone /\ env_first # EmptyDict) => removed = 0

\* C16: when every subprocess succeeds, the uninstall loop of a second run
\* removes every component the first run left installed, the bundle among
\* them, and the install then starts from an empty registry.
C16_SecondUninstallRemoves ==
    (calls = 2 /\ UninstallsDone /\ ~anyfail) =>
        /\ removed = Cardinality(DOMAIN env_first)
        /\ removed >= 1
        /\ env = EmptyDict

\* the second run of clean_install_openbb has removed what the first installed
C16_Witness ==
    /\ calls = 2
    /\ pc = "ci_install"
    /\ ~anyfail
    /\ "openbb" \in DOMAIN env_first
    /\ removed = Cardinality(DOMAIN TargetEnv)

\* ------------------------------------------------------ claims on fix main
\* C17: every run of main of fix_and_verify_openbb ends by returning 0 or 1,
\* no exception leaving it.
C17_MainReturns == (entry = "fix_main" /\ pc = "fm_exit") => exit_code \in {"0", "1"}

\* the scripts run as programs
ProgramEntries == {"main", "fix_main"}

\* positions in the log of the reconciliation's pip commands
PipAt == {i \in 1..Len(log) : log[i].op \in {"pip_uninstall", "pip_install"}}

\* the answers given to the prompt that gates the reconciliation
GateAt == {j \in 1..Len(log) : log[j].op = "input" /\ log[j].key \in {"confirm", "choice"}}

\* C18 as stated: in both programs, a pip uninstall or install runs only
\* after the inventory was taken and failed the check, and after the answer y.
C18_GatedByCheckAndConsent ==
    entry \in ProgramEntries =>
        \A i \in PipAt :
            /\ \E j \in GateAt : j < i /\ Lower(log[j].out) = "y"
            /\ \E k \in 1..(i - 1) : log[k].op = "pip_show"
            /\ NeedsReinstall(version_ok, installed)

\* C18: in both programs the reconciliation runs only after the answer y
\* (in either case) to its prompt, and never after another answer; in main of
\* fix_and_verify_openbb the prompt comes only after an inventory that is
\* mismatched or lacks openbb; in __main__ of comprehensive_solution the
\* menu choice 3 leads to the prompt without any inventory being taken.
C18_GatedByConsent ==
    entry \in ProgramEntries =>
        /\ \A i \in PipAt : \E j \in GateAt : j < i /\ Lower(log[j].out) = "y"
        /\ \A j \in GateAt : Lower(log[j].out) # "y" => PipAt = {}
        /\ (entry = "fix_main" /\ GateAt # {}) =>
              /\ version_ok \in {"True", "False"}
              /\ NeedsReinstall(version_ok, installed)
              /\ \A j \in GateAt : \E k \in 1..(j - 1) : log[k].op = "pip_show"
        /\ entry = "main" =>
              /\ version_ok = "unset"
              /\ \A k \in 1..Len(log) : log[k].op # "pip_show"

\* __main__ of comprehensive_solution has reinstalled on the answer Y alone
C18_Witness ==
    /\ entry = "main"
    /\ pc = "main_end"
    /\ PipAt # {}
    /\ \E j \in GateAt : log[j].out = "Y"
    /\ version_ok = "unset"

\* the imports and the probe of verify_openbb_installation, in order
VerifyLog == SelectSeq(log, LAMBDA e : e.op \in {"import", "probe"})

\* verify_openbb_installation has returned
VerifyReturned ==
    /\ pc \in {"idle", "fm_return0", "fm_exit"}
    /\ Len(VerifyLog) > 0

\* C19: verify_openbb_installation returns True when 'import openbb' and
\* 'from openbb import obb' both succeed, whatever the probe does, and False
\* when one of them fails with ImportError or another exception; a failing
\* probe prints a warning; the function always returns.
C19_VerifyResult ==
    LET vl == VerifyLog
        BothImported == Len(vl) >= 2 /\ vl[1].out = "ok" /\ vl[2].out = "ok"
    IN  /\ Len(vl) > 0 => pc \in {"vf_obb", "vf_probe", "idle", "fm_return0", "fm_exit"}
        /\ VerifyReturned =>
              /\ ret \in {"True", "False"}
              /\ ret = "True" <=> BothImported
              /\ BothImported => /\ Len(vl) = 3
                                 /\ vl[3].op = "probe"
                                 /\ vl[3].out = "raise" =>
                                       log[Len(log)] = Ev("print", "probe_warning", 0, "")

\* a verification whose probe failed and which returned True
C19_Witness ==
    /\ VerifyReturned
    /\ entry = "verify_openbb_installation"
    /\ ret = "True"
    /\ Len(VerifyLog) = 3
    /\ VerifyLog[3].out = "raise"

\* version 3.8 or later
AtLeast38(v) == v[1] > 3 \/ (v[1] = 3 /\ v[2] >= 8)

\* C20: check_python_version returns True exactly for the versions that are
\* at least 3.8.
C20_AtLeast38 ==
    (entry = "check_python_version" /\ calls > 0) =>
        (ret = "True" <=> AtLeast38(version_info))

====
